---- MODULE Spec2Model ----
(***************************************************************************)
(* A model of publisher-v2: the Obsidian-to-Hugo publisher.                *)
(*                                                                         *)
(*   discovery.py       NoteDiscovery  (which notes are publishable)       *)
(*   publisher.py       Publisher      (dates, process_note, publish_all,  *)
(*                                      the two orphan sweeps)             *)
(*   link_processor.py  LinkProcessor  (image links, related section)      *)
(*                                                                         *)
(* The file system is the state: the source notes of the vault, the        *)
(* output directory (<slug>.md files), the image directory, and HEAD of    *)
(* the website's git repository.  One Publisher process at a time walks    *)
(* through __init__ and publish_all; pc is its position.                   *)
(*                                                                         *)
(* Strings that the code computes on (titles, slugs) are sequences of      *)
(* one-character strings.  A date string is a tagged tuple that records    *)
(* how the code produced it: <<"now", t>> is now().strftime(...) read at   *)
(* clock t, <<"fmt", d>> is strptime(d, '%Y-%m-%d').strftime(...) or a     *)
(* datetime's strftime, <<"raw", d>> is a string passed through as it is,  *)
(* <<"git", s>> and <<"ctime", s>> are the first-commit date and the       *)
(* st_ctime of source note s.                                              *)
(***************************************************************************)
EXTENDS Integers, Sequences, FiniteSets, TLC

\* ------------------------------------------------------------------ bounds
\* Publisher processes (runs of main) in one behaviour.
MaxRuns == 2
\* The slash-separated segments of a tag.
MaxSegments == 4
\* The links and stretches of plain text of a note body.
MaxTokens == 3
\* The entries of a 'related' list.
MaxRelated == 3
\* The clock (seconds, as far as strftime shows them) stops advancing here.
MaxClock == 2

\* ------------------------------------------------------------------ strings
Lower(c) ==
  CASE c = "A" -> "a"
    [] c = "B" -> "b"
    [] OTHER -> c

\* [a-z0-9\-_] after lowercasing; every other character becomes a separator.
SafeChar(c) == c \in {"a", "b", "c", "x", "o", "-", "_"}

RECURSIVE Squeeze(_)
\* Runs of separators collapse to one.
Squeeze(s) ==
  IF Len(s) < 2 THEN s
  ELSE IF Head(s) = "-" /\ s[2] = "-" THEN Squeeze(Tail(s))
  ELSE <<Head(s)>> \o Squeeze(Tail(s))

RECURSIVE StripLeft(_)
StripLeft(s) == IF s # <<>> /\ Head(s) = "-" THEN StripLeft(Tail(s)) ELSE s

RECURSIVE StripRight(_)
StripRight(s) ==
  IF s # <<>> /\ s[Len(s)] = "-" THEN StripRight(SubSeq(s, 1, Len(s) - 1)) ELSE s

\* inflection.parameterize: unsafe characters to "-", runs squeezed, the ends
\* stripped, lowercased.
Parameterize(s) ==
  LET sep == [i \in 1..Len(s) |->
                IF SafeChar(Lower(s[i])) THEN s[i] ELSE "-"]
      low == [i \in 1..Len(s) |-> Lower(sep[i])]
  IN  StripRight(StripLeft(Squeeze(low)))

\* ------------------------------------------------------------------ state
VARIABLES
  \* the vault
  srcExists,        \* the source directory exists
  notes,            \* stem -> the note file <stem>.md of the source directory
  vaultLog,         \* what git log yields for the vault's notes
  \* config.yaml
  required_tags, excluded_tags,
  \* the website
  destExists,       \* dest_dir exists
  imageDestExists,  \* image_dest exists
  outDir,           \* slug -> the file <slug>.md of dest_dir
  images,           \* the files of image_dest
  head,             \* slug -> what git show HEAD:<dest_dir>/<slug>.md yields
  clock,
  \* the Publisher process
  pc, dryRun, publishable, idx, published_count, failed_count, error,
  \* history of the behaviour, read by the properties only
  runs, outBefore, imagesBefore, dirsBefore, processed, swept,
  prevOut, committed,
  \* the last call of get_original_publication_date, made on its own
  dateCall,
  \* the last call of a TagConverter method, made on its own
  tagCall,
  \* the last call of LinkProcessor.process_wikilinks and process_images
  linkCall,
  \* the last call of LinkProcessor.generate_related_section
  relatedCall

siteVars == <<destExists, imageDestExists, outDir, images, head>>
srcVars  == <<srcExists, notes, vaultLog, required_tags, excluded_tags>>
procVars == <<pc, dryRun, publishable, idx, published_count, failed_count, error>>
histVars == <<runs, outBefore, imagesBefore, dirsBefore, processed, swept,
              prevOut, committed>>
callVars == <<dateCall, tagCall, linkCall, relatedCall>>
vars == <<srcVars, siteVars, clock, procVars, histVars, callVars>>

\* ------------------------------------------------------------------ notes
Stems == {<<"A">>, <<"b">>}

ReqTag == "status/evergreen"
ExcTag == "status/draft"
DomTag == "domain/cs"
TagUniverse == {ReqTag, ExcTag, DomTag}

NoTitle   == [k |-> "absent", s |-> <<>>]
NullTitle == [k |-> "null", s |-> <<>>]       \* "title:" with no value, or a number
StrTitle(s) == [k |-> "str", s |-> s]

NoCreated == [k |-> "absent", d |-> 0]
\* k: "str" a string strptime parses, "badstr" one it does not, "datetime" a
\* YAML timestamp with a time, "other" any other YAML value (an unquoted
\* 2024-01-01 is a datetime.date).
Created(k, d) == [k |-> k, d |-> d]
CreatedKinds == {"str", "badstr", "datetime", "other"}

Img(base, ext) == [base |-> base, ext |-> ext]
XPng == Img(<<"x">>, "png")
\* An embedded image that no image_sources directory holds.
MissingPng == Img(<<"b">>, "png")

TagList(ts) == [k |-> "list", v |-> ts]
TagStr(t)   == [k |-> "str", v |-> {t}]
NoTags      == [k |-> "absent", v |-> {}]

\* block is the shape of the file's leading metadata block: "ok" (a YAML
\* mapping between two --- lines, the fields below), "absent" (the text does
\* not start with ---), "unterminated" (no second --- line), "yamlerror"
\* (yaml.safe_load raises a yaml.YAMLError), "notdict" (it loads to a list,
\* a scalar or None), "valueerror" (a scalar that resolves to a timestamp
\* but names no real day, such as 2024-02-30: the constructor's
\* datetime.date(...) raises ValueError, which is no yaml.YAMLError).
Note(tags, title, created, related, embeds) ==
  [present |-> TRUE, block |-> "ok", tags |-> tags, title |-> title,
   created |-> created, related |-> related, embeds |-> embeds]

NoNote == [present |-> FALSE, block |-> "ok", tags |-> NoTags, title |-> NoTitle,
           created |-> NoCreated, related |-> "absent", embeds |-> {}]

BlockKinds == {"ok", "absent", "unterminated", "yamlerror", "notdict", "valueerror"}

\* The note file n with its metadata block written in shape b.
WithBlock(n, b) == [n EXCEPT !.block = b]

\* The source documents a note file is drawn from.
Profiles ==
  { NoNote,
    Note(TagStr(ReqTag), NoTitle, NoCreated, "absent", {}),
    Note(TagList({ReqTag, DomTag}), NoTitle, Created("str", 1), "ok", {XPng}),
    Note(TagList({ReqTag}), StrTitle(<<"a">>), NoCreated, "absent", {}),
    Note(TagList({ReqTag}), NullTitle, NoCreated, "absent", {}),
    Note(TagList({ReqTag}), NoTitle, NoCreated, "bad", {XPng}),
    Note(TagList({ReqTag}), NoTitle, NoCreated, "absent", {XPng, MissingPng}),
    Note(NoTags, NoTitle, NoCreated, "absent", {}),
    Note(TagList({ReqTag, ExcTag, DomTag}), NoTitle, NoCreated, "absent", {}) }

\* ------------------------------------------------------------------ discovery
\* NoteDiscovery.parse_frontmatter raises: only yaml.YAMLError is caught.
ParseRaises(n) == n.block = "valueerror"

\* NoteDiscovery.parse_frontmatter: the mapping of a well-formed block, else
\* the empty mapping and the whole text as the body.
parse_frontmatter(n) ==
  IF n.block = "ok" THEN n
  ELSE [n EXCEPT !.tags = NoTags, !.title = NoTitle, !.created = NoCreated,
                 !.related = "absent"]

\* NoteDiscovery.extract_tags: a list or a single string; anything else is no tag.
extract_tags(frontmatter) ==
  IF frontmatter.tags.k \in {"list", "str"} THEN frontmatter.tags.v ELSE {}

is_publishable_no_exclusion(n, req, exc) ==
  (req \cap extract_tags(n)) # {}

\* NoteDiscovery.is_publishable, the boolean of its result.
is_publishable(n, req, exc) ==
  /\ (req \cap extract_tags(n)) # {}
  /\ (exc \cap extract_tags(n)) = {}

SourceDirTreatedAsEmpty == FALSE

\* NoteDiscovery.discover_all_notes, lines 23-24: a missing source directory
\* raises FileNotFoundError.
SourceDirMissing == ~srcExists

\* NoteDiscovery.discover_all_notes: the *.md files of the source directory.
discover_all_notes == {s \in Stems : notes[s].present}

\* NoteDiscovery.discover_publishable_notes, as the set its list holds.
discover_publishable_notes ==
  {s \in discover_all_notes :
     is_publishable(parse_frontmatter(notes[s]), required_tags, excluded_tags)}

\* The orders glob may enumerate a set of files in.
Orderings(S) ==
  {q \in UNION {[1..n -> S] : n \in {Cardinality(S)}} :
     \A i, j \in DOMAIN q : i # j => q[i] # q[j]}

\* The title process_note and _clean_orphaned_files derive the slug from:
\* frontmatter.get('title', stem).
TitleOf(s) ==
  IF parse_frontmatter(notes[s]).title.k = "absent" THEN StrTitle(s)
  ELSE parse_frontmatter(notes[s]).title

\* inflection.parameterize raises TypeError on a title that is no string.
SlugRaises(s) == TitleOf(s).k # "str"
SlugOf(s) == Parameterize(TitleOf(s).s)

\* ------------------------------------------------------------------ dates
\* What git show HEAD:<path> yields: k = "absent" (no repository, or the path
\* is not in HEAD: git raises), "nofm" (no leading ---), "badyaml" (the old
\* frontmatter does not load to a mapping), "nodate" (no 'date' key), "date"
\* (a 'date' of type t: "str", "datetime" or "other").
NoHead == [k |-> "absent", t |-> "-", v |-> <<"-", 0>>]
HeadDate(t, v) == [k |-> "date", t |-> t, v |-> v]
HeadOf(hd, slug) == IF slug \in DOMAIN hd THEN hd[slug] ELSE NoHead

\* Publisher.get_creation_date: the first commit of the note, else st_ctime,
\* else (git raised) the current time.
get_creation_date(log, now) ==
  CASE log = "log"   -> <<"git", 0>>
    [] log = "empty" -> <<"ctime", 0>>
    [] OTHER         -> <<"now", now>>

\* Lines 127-137: the 'created' of the source frontmatter, when its type is
\* one the code handles.
FromCreated(created) ==
  CASE created.k = "str"      -> <<"fmt", created.d>>
    [] created.k = "badstr"   -> <<"raw", created.d>>
    [] created.k = "datetime" -> <<"fmt", created.d>>
    [] OTHER                  -> <<"none", 0>>

\* Lines 100-124: the date of the previous version at HEAD, when the output
\* file exists and the old frontmatter has a 'date' the code handles.
FromHistory(slug, files, hd) ==
  LET h == HeadOf(hd, slug) IN
  IF slug \in DOMAIN files /\ h.k = "date" /\ h.t = "str" THEN h.v
  ELSE IF slug \in DOMAIN files /\ h.k = "date" /\ h.t = "datetime"
       THEN <<"fmt", h.v[2]>>
  ELSE <<"none", 0>>

\* Publisher.get_original_publication_date.
get_original_publication_date(slug, created, files, hd, now) ==
  IF FromHistory(slug, files, hd)[1] # "none" THEN FromHistory(slug, files, hd)
  ELSE IF FromCreated(created)[1] # "none" THEN FromCreated(created)
  ELSE <<"now", now>>

\* ------------------------------------------------------------------ links
\* LinkProcessor.convert_image_link: ![[name.ext]] becomes
\* ![slug](/images/slug.webp).
convert_image_link(img) == Img(Parameterize(img.base), "webp")

\* LinkProcessor.process_images: the image links of the rewritten body, and
\* the image dependencies.
process_images(n) ==
  [refs |-> {convert_image_link(i) : i \in n.embeds}, deps |-> n.embeds]

\* config['features']
EnableRelated == TRUE
OptimizeImages == TRUE

\* LinkProcessor.generate_related_section raises on a 'related' entry that is
\* no string (item.strip).
RelatedRaises(n) == EnableRelated /\ n.related = "bad"

\* The images of the vault's image_sources directories.
VaultImages == {XPng}

\* optimize_image (the old publisher's): the encoded files it leaves in
\* image_dest for one source image.
optimize_image(img) ==
  {Img(Parameterize(img.base), "webp"), Img(Parameterize(img.base), img.ext)}

ProcessImagesStopsAtMissing(deps) ==
  IF OptimizeImages /\ deps \subseteq VaultImages
  THEN UNION {optimize_image(i) : i \in deps}
  ELSE {}

\* Publisher._process_images: the files added to image_dest.  An image found
\* in no source directory is a printed warning and the loop goes on.
ProcessImagesOutput(deps) ==
  IF OptimizeImages
  THEN UNION {optimize_image(i) : i \in deps \cap VaultImages}
  ELSE {}

\* ------------------------------------------------------------------ note bodies
\* A body is a sequence of tokens: a stretch of text without links, a
\* cross-reference [[target]] or [[target|alias]], an embed ![[name.ext]];
\* the rewritten body also holds [text](/blog/slug) and
\* ![slug](/images/slug.webp).
Text == [k |-> "text"]
NoAlias == [k |-> "absent", s |-> <<>>]
Alias(s) == [k |-> "str", s |-> s]
Wikilink(target, alias) == [k |-> "wikilink", target |-> target, alias |-> alias]
Embed(img) == [k |-> "embed", img |-> img]
MdLink(text, slug) == [k |-> "link", text |-> text, slug |-> slug]
MdImage(img) == [k |-> "image", img |-> img]

\* The file name of an image, as the characters between ![[ and ]].
NameOf(img) == img.base \o <<".", img.ext>>

RECURSIVE LStrip(_)
LStrip(s) == IF s # <<>> /\ Head(s) = " " THEN LStrip(Tail(s)) ELSE s

RECURSIVE RStrip(_)
RStrip(s) ==
  IF s # <<>> /\ s[Len(s)] = " " THEN RStrip(SubSeq(s, 1, Len(s) - 1)) ELSE s

\* str.strip()
Strip(s) == RStrip(LStrip(s))

\* LinkProcessor.extract_wikilinks: re.findall of \[\[([^\]|]+)(?:\|[^\]]+)?\]\]
\* matches the [[...]] of a cross-reference and the [[...]] inside ![[...]].
extract_wikilinks(content) ==
  {content[i].target : i \in {j \in DOMAIN content : content[j].k = "wikilink"}}
    \cup {NameOf(content[i].img) : i \in {j \in DOMAIN content : content[j].k = "embed"}}

\* LinkProcessor.convert_wikilink
convert_wikilink(w) ==
  LET target == Strip(w.target)
      alias == IF w.alias.k = "str" THEN Strip(w.alias.s) ELSE target
  IN  MdLink(alias, Parameterize(target))

\* LinkProcessor.process_wikilinks: re.sub of (?<!!)\[\[([^\]]+)\]\].
process_wikilinks(content) ==
  [content |-> [i \in DOMAIN content |->
                  IF content[i].k = "wikilink" THEN convert_wikilink(content[i])
                  ELSE content[i]],
   referenced_notes |-> extract_wikilinks(content)]

\* LinkProcessor.extract_image_links: the names inside ![[...]].
extract_image_links(content) ==
  {NameOf(content[i].img) : i \in {j \in DOMAIN content : content[j].k = "embed"}}

\* LinkProcessor.process_images on a body: re.sub of !\[\[([^\]]+)\]\].
process_images_content(content) ==
  [content |-> [i \in DOMAIN content |->
                  IF content[i].k = "embed"
                    THEN MdImage(convert_image_link(content[i].img))
                    ELSE content[i]],
   image_deps |-> extract_image_links(content)]

\* An entry of the 'related' list: [[name]], [[name|alias]] or name.
RelatedItem(name, alias) == [name |-> name, alias |-> alias]

\* The horizontal rule and the heading that open the related section.
Rule == [k |-> "rule"]
Heading == [k |-> "heading"]

RelatedLinksAll(related, note_slug, already_linked) ==
  [i \in DOMAIN related |-> MdLink(related[i].name, Parameterize(related[i].name))]

RECURSIVE RelatedLinks(_, _, _)
\* generate_related_section, lines 146-161: the loop over the entries.
\* item.strip('[]').split('|')[0] is the entry's name.
RelatedLinks(related, note_slug, already_linked) ==
  IF related = <<>> THEN <<>>
  ELSE LET note_name == Head(related).name
           slug == Parameterize(note_name)
           rest == RelatedLinks(Tail(related), note_slug, already_linked)
       IN  IF slug = note_slug THEN rest
           ELSE IF note_name \in already_linked THEN rest
           ELSE <<MdLink(note_name, slug)>> \o rest

\* LinkProcessor.generate_related_section: the tokens of the returned string
\* (none for ""); listed is FALSE when the frontmatter has no 'related'.
generate_related_section(enable, listed, related, note_slug, already_linked) ==
  IF ~enable THEN <<>>
  ELSE IF ~listed \/ related = <<>> THEN <<>>
  ELSE IF RelatedLinks(related, note_slug, already_linked) = <<>> THEN <<>>
  ELSE <<Rule, Heading>> \o RelatedLinks(related, note_slug, already_linked)

\* ------------------------------------------------------------------ tags
\* A tag is the sequence of its segments, tag.split('/'); joining with '/' is
\* the sequence itself, no segment holding a '/'.
TagSegments ==
  {"domain", "type", "status", "cs", "math", "algorithms", "analysis", "Analysis"}

\* The tag strings of the notes, split.
SegmentsOf(t) ==
  CASE t = ReqTag -> <<"status", "evergreen">>
    [] t = ExcTag -> <<"status", "draft">>
    [] t = DomTag -> <<"domain", "cs">>

\* dict.get(key, default)
Get(d, key, default) == IF key \in DOMAIN d THEN d[key] ELSE default

\* TagConverter.parse_hierarchical_tag: a dict, as a function of its keys.
parse_hierarchical_tag(tag) ==
  LET parts == tag
      n == Len(parts)
      result == ("root" :> parts[1]) @@ ("full_tag" :> tag)
  IN  IF n < 2 THEN ("root" :> parts[1]) @@ ("leaf" :> parts[1])
      ELSE IF parts[1] = "domain" THEN
        result @@ ("domain" :> parts[2])
          @@ (IF n >= 3 THEN "subdomain" :> parts[3] ELSE <<>>)
          @@ (IF n >= 4 THEN "subsubdomain" :> parts[4] ELSE <<>>)
          @@ ("leaf" :> parts[n])
          @@ ("full_path" :> IF n > 2 THEN SubSeq(parts, 1, n - 1) ELSE tag)
      ELSE IF parts[1] = "type" THEN
        result @@ ("type" :> parts[2]) @@ ("leaf" :> parts[n])
      ELSE IF parts[1] = "status" THEN
        result @@ ("status" :> parts[2]) @@ ("leaf" :> parts[n])
      ELSE result @@ ("leaf" :> parts[n])

\* str.lower() on the segments.
LowerWord(w) == IF w = "Analysis" THEN "analysis" ELSE w

\* inflection.singularize on the segments ("cs" loses its s by the rule s$).
singularize(w) ==
  CASE w = "algorithms" -> "algorithm"
    [] w = "cs"         -> "c"
    [] OTHER            -> w

\* str.capitalize() on the words parameterize yields.
Capitalize(w) ==
  CASE w = "analysis"   -> "Analysis"
    [] w = "algorithm"  -> "Algorithm"
    [] w = "algorithms" -> "Algorithms"
    [] w = "math"       -> "Math"
    [] w = "c"          -> "C"
    [] w = "cs"         -> "Cs"
    [] w = "domain"     -> "Domain"
    [] w = "type"       -> "Type"
    [] w = "status"     -> "Status"
    [] OTHER            -> w

\* tag_to_topic, line 85.
generic_terms ==
  {"analysis", "complexity", "theory", "general", "miscellaneous", "optimization",
   "design"}

\* TagConverter.tag_to_topic: the topic as the sequence of its hyphen-joined
\* words.  parameterize of "<a>-<b>" over these segments lowercases both.
tag_to_topic(tag) ==
  LET parsed == parse_hierarchical_tag(tag)
      leaf == Get(parsed, "leaf", tag)
      subdomain == Get(parsed, "subdomain", "")
      domain == Get(parsed, "domain", "")
      topic ==
        IF LowerWord(leaf) \in generic_terms
          THEN IF subdomain # "" /\ LowerWord(subdomain) # LowerWord(leaf)
                 THEN <<LowerWord(singularize(subdomain)), LowerWord(leaf)>>
               ELSE IF domain # ""
                 THEN <<LowerWord(singularize(domain)), LowerWord(leaf)>>
               ELSE <<LowerWord(leaf)>>
          ELSE <<LowerWord(leaf)>>
  IN  [i \in DOMAIN topic |-> Capitalize(topic[i])]

\* config['domain_mappings']: tag prefix -> category and subcategories.
Mapping(category, subcategories) ==
  [category |-> category, subcategories |-> subcategories]

Lit(s) == <<"lit", s>>
\* str.upper() and inflection.titleize, applied to a segment.
Upper(w) == <<"upper", w>>
Titleize(w) == <<"titleize", w>>

ShortestVariant(parts, i, mappings) ==
  LET hits == {j \in 2..i : SubSeq(parts, 1, j) \in DOMAIN mappings}
  IN  IF hits = {} THEN 0 ELSE CHOOSE j \in hits : \A k \in hits : j <= k

RECURSIVE FirstVariant(_, _, _)
\* get_categories_from_tag, lines 131-144: the first of the prefixes
\* parts[:i], parts[:i-1], .., parts[:2] that is a key of the mappings.
FirstVariant(parts, i, mappings) ==
  IF i <= 1 THEN 0
  ELSE IF SubSeq(parts, 1, i) \in DOMAIN mappings THEN i
  ELSE FirstVariant(parts, i - 1, mappings)

\* TagConverter.get_categories_from_tag.
get_categories_from_tag(tag, mappings) ==
  LET parsed == parse_hierarchical_tag(tag)
      v == FirstVariant(tag, Len(tag), mappings)
      mapping == mappings[SubSeq(tag, 1, v)]
  IN  IF Get(parsed, "root", "") # "domain" THEN <<>>
      ELSE IF v > 0
        THEN (IF mapping.category # "" THEN <<Lit(mapping.category)>> ELSE <<>>)
               \o [i \in DOMAIN mapping.subcategories |-> Lit(mapping.subcategories[i])]
      ELSE (IF "domain" \in DOMAIN parsed THEN <<Upper(parsed["domain"])>> ELSE <<>>)
             \o (IF "subdomain" \in DOMAIN parsed
                   THEN <<Titleize(parsed["subdomain"])>> ELSE <<>>)

\* TagConverter.get_series_from_tag, with no type_mappings configured: the
\* set holding the series, empty for None.
get_series_from_tag(tag) ==
  LET parsed == parse_hierarchical_tag(tag)
  IN  IF Get(parsed, "root", "") = "type" /\ Get(parsed, "type", "") # ""
        THEN {Titleize(parsed["type"])}
        ELSE {}

\* TagConverter.convert_tags: the three sorted lists, as the sets they list.
convert_tags(tags, mappings) ==
  LET root(t) == Get(parse_hierarchical_tag(t), "root", "")
      cats(t) == get_categories_from_tag(t, mappings)
  IN  [topics |-> {tag_to_topic(t) : t \in {u \in tags : root(u) \notin {"type", "status"}}},
       categories |-> UNION {{cats(t)[i] : i \in DOMAIN cats(t)} :
                               t \in {u \in tags : root(u) = "domain"}},
       series |-> UNION {get_series_from_tag(t) : t \in {u \in tags : root(u) = "type"}}]

\* ------------------------------------------------------------------ output
\* A file of dest_dir: the frontmatter (date, doc and the rest of it, meta),
\* the image links of the body, the note it was written from, and its
\* modification time.
File(date, doc, refs, src, mtime, meta) ==
  [date |-> date, doc |-> doc, refs |-> refs, src |-> src, mtime |-> mtime,
   meta |-> meta]

\* tag.replace('/', '-')
UrlSafe(t) == [sep |-> "-", parts |-> SegmentsOf(t)]

\* titlecase.titlecase(title).replace(';', ':')
Titlecase(s) == <<"titlecase", s>>

Author == "Kishore Kumar"

AllTags(tags) == tags

\* process_note, line 166: the tags whose root is 'domain'.
domain_tags(tags) ==
  {t \in tags : Get(parse_hierarchical_tag(SegmentsOf(t)), "root", "") = "domain"}

\* The frontmatter mapping yaml.dump writes: its keys, and the values of
\* 'tags' (a sorted list, as the set it lists), 'title' and 'author'; the
\* values of 'date' and 'doc' are the file's date and doc.
Frontmatter(tags, title) ==
  [keys |-> {"date", "doc", "title", "author"}
              \cup (IF tags # {} THEN {"tags"} ELSE {}),
   tags |-> tags, title |-> title, author |-> Author]

\* process_note, lines 165-182: enhanced_frontmatter.
enhanced_frontmatter(s) ==
  Frontmatter({UrlSafe(t) : t \in domain_tags(extract_tags(parse_frontmatter(notes[s])))},
              Titlecase(TitleOf(s).s))

\* f with x mapped to v, x added to its domain if new.
Put(f, x, v) == [y \in DOMAIN f \cup {x} |-> IF y = x THEN v ELSE f[y]]
Restrict(f, S) == [y \in S |-> f[y]]
Empty == <<>>

\* Publisher.process_note raises (and returns False) for note s.
ProcessRaises(s) == SlugRaises(s) \/ RelatedRaises(parse_frontmatter(notes[s]))

\* Publisher.process_note, lines 177-203: the file written for note s.
PublishedFile(s) ==
  File(get_original_publication_date(SlugOf(s), parse_frontmatter(notes[s]).created,
                                     outDir, head, clock),
       get_creation_date(vaultLog, clock),
       process_images(notes[s]).refs,
       s,
       clock,
       enhanced_frontmatter(s))

\* ------------------------------------------------------------------ initial states
OldWebp == Img(<<"o">>, "webp")
OldSvg  == Img(<<"o">>, "svg")
OldGif  == Img(<<"c">>, "gif")
XWebp   == Img(<<"x">>, "webp")

\* Output of earlier runs, from sources that may since have changed.
OldA == File(<<"now", 0>>, <<"git", 0>>, {}, <<"A">>, 0,
             Frontmatter({}, Titlecase(<<"A">>)))
OldB == File(<<"now", 0>>, <<"git", 0>>, {OldWebp}, <<"b">>, 0,
             Frontmatter({}, Titlecase(<<"b">>)))
OldC == File(<<"fmt", 1>>, <<"git", 0>>, {OldWebp}, <<"c">>, 0,
             Frontmatter({}, Titlecase(<<"c">>)))

\* HEAD after committing the output directory d: every file's frontmatter,
\* whose 'date' the publisher wrote as a string.
CommitOf(d) == [slug \in DOMAIN d |-> HeadDate("str", d[slug].date)]

Site(dest, imgdir, out, imgs, hd) ==
  [dest |-> dest, imgdir |-> imgdir, out |-> out, imgs |-> imgs, head |-> hd]

OutAB == Put(Put(Empty, <<"a">>, OldA), <<"b">>, OldB)
OutC  == Put(Empty, <<"c">>, OldC)

\* The website a run may start from: nothing yet, empty directories, the
\* output of an earlier run (committed or not), another earlier output.
PriorSites ==
  { Site(FALSE, FALSE, Empty, {}, Empty),
    Site(TRUE, TRUE, Empty, {}, Empty),
    Site(TRUE, TRUE, OutAB, {XWebp, XPng, OldWebp, OldSvg}, CommitOf(OutAB)),
    Site(TRUE, TRUE, OutAB, {XWebp, XPng, OldWebp, OldSvg}, Empty),
    Site(TRUE, TRUE, OutC, {OldWebp, OldGif}, CommitOf(OutC)) }

NoCall == [slug |-> <<>>, result |-> <<"none", 0>>]
NoTagCall == [fn |-> "none", tag |-> <<>>, cfg |-> <<>>, result |-> <<>>]
NoLinkCall == [fn |-> "none", content |-> <<>>, wikilinked |-> <<>>,
               referenced_notes |-> {}, processed_content |-> <<>>, image_deps |-> {}]
NoRelatedCall == [fn |-> "none", enable |-> TRUE, related |-> <<>>, listed |-> FALSE,
                  note_slug |-> <<>>, already_linked |-> {}, section |-> <<>>,
                  processed_content |-> <<>>]
NoPrev == [ran |-> FALSE, out |-> Empty]

InitProcess ==
  /\ pc = "idle" /\ dryRun = FALSE /\ publishable = <<>> /\ idx = 1
  /\ published_count = 0 /\ failed_count = 0 /\ error = "none"
  /\ runs = 0 /\ outBefore = Empty /\ imagesBefore = {}
  /\ dirsBefore = <<FALSE, FALSE>> /\ processed = {} /\ swept = FALSE
  /\ prevOut = NoPrev /\ committed = FALSE
  /\ dateCall = NoCall /\ tagCall = NoTagCall
  /\ linkCall = NoLinkCall /\ relatedCall = NoRelatedCall

Init ==
  /\ srcExists \in BOOLEAN
  /\ notes \in [Stems -> Profiles]
  /\ srcExists = FALSE => \A s \in Stems : notes[s] = NoNote
  /\ vaultLog \in {"log", "empty", "error"}
  /\ required_tags = {ReqTag} /\ excluded_tags = {ExcTag}
  /\ \E site \in PriorSites :
       /\ destExists = site.dest /\ imageDestExists = site.imgdir
       /\ outDir = site.out /\ images = site.imgs /\ head = site.head
  /\ clock = 1
  /\ InitProcess

\* ------------------------------------------------------------------ the run
\* main: a new process; Publisher.__init__ creates the output directories.
Construct ==
  /\ pc = "idle" /\ runs < MaxRuns
  /\ runs' = runs + 1
  /\ dryRun' \in BOOLEAN
  /\ outBefore' = outDir /\ imagesBefore' = images
  /\ dirsBefore' = <<destExists, imageDestExists>>
  /\ destExists' = TRUE /\ imageDestExists' = TRUE
  /\ pc' = "ready"
  /\ publishable' = <<>> /\ idx' = 1
  /\ published_count' = 0 /\ failed_count' = 0 /\ error' = "none"
  /\ processed' = {} /\ swept' = FALSE
  /\ UNCHANGED <<srcVars, outDir, images, head, clock, prevOut, committed, callVars>>

\* publish_all, lines 261-284: discovery and the early returns.
Discover ==
  /\ pc = "ready"
  /\ IF SourceDirMissing
       THEN /\ pc' = "raised" /\ error' = "FileNotFoundError"
            /\ publishable' = <<>>
     ELSE IF \E s \in discover_all_notes : ParseRaises(notes[s])
       THEN /\ pc' = "raised" /\ error' = "ValueError"
            /\ publishable' = <<>>
     ELSE IF discover_publishable_notes = {}
       THEN pc' = "done" /\ error' = "none" /\ publishable' = <<>>
     ELSE /\ publishable' \in Orderings(discover_publishable_notes)
          /\ pc' = IF dryRun THEN "done" ELSE "loop"
          /\ error' = "none"
  /\ idx' = 1 /\ published_count' = 0 /\ failed_count' = 0
  /\ UNCHANGED <<srcVars, siteVars, clock, dryRun, histVars, callVars>>

LoopStopsAfterFirst == idx <= 1 /\ idx <= Len(publishable)

\* The for loop of lines 286-290 has a note left.
LoopHasNext == idx <= Len(publishable)

\* One iteration of the loop: process_note on the next note, and the count.
ProcessNote ==
  /\ pc = "loop" /\ LoopHasNext
  /\ LET s == publishable[idx] IN
       /\ processed' = processed \cup {s}
       /\ IF ProcessRaises(s)
            THEN /\ failed_count' = failed_count + 1
                 /\ UNCHANGED <<published_count, outDir, images>>
            ELSE /\ published_count' = published_count + 1
                 /\ UNCHANGED failed_count
                 /\ images' = images \cup ProcessImagesOutput(process_images(notes[s]).deps)
                 /\ outDir' = Put(outDir, SlugOf(s), PublishedFile(s))
  /\ idx' = idx + 1
  /\ UNCHANGED <<srcVars, destExists, imageDestExists, head, clock, pc, dryRun,
                 publishable, error, runs, outBefore, imagesBefore, dirsBefore,
                 swept, prevOut, committed, callVars>>

CurrentSlugsOfPublished ==
  {SlugOf(publishable[i]) :
     i \in {j \in DOMAIN publishable : ~ProcessRaises(publishable[j])}}

\* _clean_orphaned_files, lines 306-311: the names of the current notes.
current_slugs == {SlugOf(publishable[i]) : i \in DOMAIN publishable}

\* Lines 313-317: the published files that are no current note's.
OrphanedFiles == DOMAIN outDir \ current_slugs

\* publish_all line 297: _clean_orphaned_files(publishable_notes).  Deriving
\* the slugs raises for a title that is no string, before anything is removed.
CleanOrphanedFiles ==
  /\ pc = "loop" /\ ~LoopHasNext
  /\ swept' = TRUE
  /\ IF \E i \in DOMAIN publishable : SlugRaises(publishable[i])
       THEN pc' = "raised" /\ error' = "TypeError" /\ UNCHANGED outDir
       ELSE /\ outDir' = Restrict(outDir, DOMAIN outDir \ OrphanedFiles)
            /\ pc' = "sweepImages" /\ UNCHANGED error
  /\ UNCHANGED <<srcVars, destExists, imageDestExists, images, head, clock, dryRun,
                 publishable, idx, published_count, failed_count, runs, outBefore,
                 imagesBefore, dirsBefore, processed, prevOut, committed, callVars>>

ReferencedBeforeDocumentSweep ==
  LET refs == UNION ({outDir[slug].refs : slug \in DOMAIN outDir}
                       \cup {outBefore[slug].refs : slug \in DOMAIN outBefore})
  IN  refs \cup {Img(r.base, "png") : r \in {q \in refs : q.ext = "webp"}}

\* _clean_orphaned_images, lines 333-343: every /images/ link of the
\* published posts, and the .png of every .webp.
referenced_images ==
  LET refs == UNION {outDir[slug].refs : slug \in DOMAIN outDir}
  IN  refs \cup {Img(r.base, "png") : r \in {q \in refs : q.ext = "webp"}}

\* Lines 346-349: the globs of the sweep.
SweptExtensions == {"webp", "png", "jpg", "jpeg", "gif"}
existing_images == {i \in images : i.ext \in SweptExtensions}

\* publish_all line 298: _clean_orphaned_images().
CleanOrphanedImages ==
  /\ pc = "sweepImages"
  /\ images' = images \ (existing_images \ referenced_images)
  /\ pc' = "done"
  /\ UNCHANGED <<srcVars, destExists, imageDestExists, outDir, head, clock, dryRun,
                 publishable, idx, published_count, failed_count, error, histVars,
                 callVars>>

\* The process ends: publish_all returned, or its exception ended main.
Exit ==
  /\ pc \in {"done", "raised"}
  /\ pc' = "idle"
  /\ prevOut' = IF pc = "done" /\ ~dryRun
                  THEN [ran |-> TRUE, out |-> outDir]
                  ELSE NoPrev
  /\ committed' = FALSE
  /\ UNCHANGED <<srcVars, siteVars, clock, dryRun, publishable, idx,
                 published_count, failed_count, error, runs, outBefore,
                 imagesBefore, dirsBefore, processed, swept, callVars>>

\* ------------------------------------------------------------------ environment
\* The user commits the website: HEAD records the output directory.
Commit ==
  /\ pc = "idle" /\ runs > 0 /\ head # CommitOf(outDir)
  /\ head' = CommitOf(outDir)
  /\ committed' = TRUE
  /\ UNCHANGED <<srcVars, destExists, imageDestExists, outDir, images, clock,
                 procVars, runs, outBefore, imagesBefore, dirsBefore, processed,
                 swept, prevOut, callVars>>

\* Time passes between two runs.
Tick ==
  /\ pc = "idle" /\ clock < MaxClock
  /\ clock' = clock + 1
  /\ UNCHANGED <<srcVars, siteVars, procVars, histVars, callVars>>

Next ==
  \/ Construct
  \/ Discover
  \/ ProcessNote
  \/ CleanOrphanedFiles
  \/ CleanOrphanedImages
  \/ Exit
  \/ Commit
  \/ Tick

Spec == Init /\ [][Next]_vars

\* ------------------------------------------------------------------ the filter on its own
\* Every shape of the 'tags' field over the tag universe.
TagFields ==
  {TagList(ts) : ts \in SUBSET TagUniverse} \cup {TagStr(t) : t \in TagUniverse}
    \cup {NoTags, [k |-> "other", v |-> {ReqTag}]}

\* Any filter configuration, one note with any 'tags' field, and a second
\* note that may or may not be there.
InitFilter ==
  /\ srcExists = TRUE
  /\ \E tf \in TagFields :
       notes \in [Stems -> {Note(tf, NoTitle, NoCreated, "absent", {}), NoNote,
                            Note(TagList({ReqTag, DomTag}), NoTitle, NoCreated, "absent", {})}]
  /\ notes[<<"b">>].tags \in {NoTags, TagList({ReqTag, DomTag})}
  /\ notes[<<"A">>].present
  /\ vaultLog = "log"
  /\ required_tags \in SUBSET TagUniverse
  /\ excluded_tags \in SUBSET TagUniverse
  /\ destExists = TRUE /\ imageDestExists = TRUE
  /\ outDir = Empty /\ images = {} /\ head = Empty
  /\ clock = 1
  /\ InitProcess

FilterSpec == InitFilter /\ [][Next]_vars

\* ------------------------------------------------------------------ the date resolver on its own
HeadKinds ==
  {NoHead} \cup {[k |-> k, t |-> "-", v |-> <<"-", 0>>] : k \in {"nofm", "badyaml", "nodate"}}
    \cup {HeadDate(t, <<"old", 0>>) : t \in {"str", "datetime", "other"}}

\* One note with any 'created', an output file there or not, any HEAD.
InitDate ==
  /\ srcExists = TRUE
  /\ \E k \in CreatedKinds \cup {"absent"} :
       notes = [s \in Stems |->
                  IF s = <<"A">>
                    THEN Note(TagStr(ReqTag), NoTitle,
                              IF k = "absent" THEN NoCreated ELSE Created(k, 1),
                              "absent", {})
                    ELSE NoNote]
  /\ vaultLog = "log"
  /\ required_tags = {ReqTag} /\ excluded_tags = {ExcTag}
  /\ destExists = TRUE /\ imageDestExists = TRUE
  /\ outDir \in {Empty, Put(Empty, <<"a">>, OldA)}
  /\ images = {}
  /\ \E h \in HeadKinds : head = Put(Empty, <<"a">>, h)
  /\ clock \in 1..MaxClock
  /\ InitProcess

\* A call of get_original_publication_date for note s, as process_note makes it.
ResolveDate(s) ==
  /\ pc = "idle" /\ dateCall = NoCall
  /\ notes[s].present /\ ~SlugRaises(s)
  /\ dateCall' = [slug |-> SlugOf(s),
                  result |-> get_original_publication_date(
                               SlugOf(s), parse_frontmatter(notes[s]).created,
                               outDir, head, clock)]
  /\ UNCHANGED <<srcVars, siteVars, clock, procVars, histVars, tagCall, linkCall,
                 relatedCall>>

NextDate == (\E s \in Stems : ResolveDate(s)) \/ Tick

DateSpec == InitDate /\ [][NextDate]_vars

\* ------------------------------------------------------------------ the tag converter on its own
\* Nothing but a constructed object: the calls below read no file.
InitCall ==
  /\ srcExists = TRUE /\ notes = [s \in Stems |-> NoNote]
  /\ vaultLog = "log"
  /\ required_tags = {ReqTag} /\ excluded_tags = {ExcTag}
  /\ destExists = TRUE /\ imageDestExists = TRUE
  /\ outDir = Empty /\ images = {} /\ head = Empty
  /\ clock = 1
  /\ InitProcess

\* Every tag of one to MaxSegments segments.
Tags == UNION {[1..n -> TagSegments] : n \in 1..MaxSegments}

CsKey == <<"domain", "cs">>
AlgKey == <<"domain", "cs", "algorithms">>
MathKey == <<"domain", "math">>
RootKey == <<"domain">>

\* The domain_mappings tables a config.yaml is drawn from.
DomainMappings ==
  { <<>>,
    CsKey :> Mapping("Computer Science", <<>>),
    (CsKey :> Mapping("Computer Science", <<>>))
      @@ (AlgKey :> Mapping("Computer Science", <<"Algorithms">>)),
    (AlgKey :> Mapping("Computer Science", <<"Algorithms">>))
      @@ (MathKey :> Mapping("", <<"Mathematics">>)),
    (RootKey :> Mapping("Everything", <<>>))
      @@ (MathKey :> Mapping("Mathematics", <<"Pure", "Applied">>)) }

ParseTag ==
  /\ pc = "idle" /\ tagCall = NoTagCall
  /\ \E tag \in Tags :
       tagCall' = [fn |-> "parse", tag |-> tag, cfg |-> <<>>,
                   result |-> parse_hierarchical_tag(tag)]
  /\ UNCHANGED <<srcVars, siteVars, clock, procVars, histVars, dateCall, linkCall,
                 relatedCall>>

TagToTopic ==
  /\ pc = "idle" /\ tagCall = NoTagCall
  /\ \E tag \in Tags :
       tagCall' = [fn |-> "topic", tag |-> tag, cfg |-> <<>>,
                   result |-> tag_to_topic(tag)]
  /\ UNCHANGED <<srcVars, siteVars, clock, procVars, histVars, dateCall, linkCall,
                 relatedCall>>

GetCategories ==
  /\ pc = "idle" /\ tagCall = NoTagCall
  /\ \E tag \in Tags, cfg \in DomainMappings :
       tagCall' = [fn |-> "categories", tag |-> tag, cfg |-> cfg,
                   result |-> get_categories_from_tag(tag, cfg)]
  /\ UNCHANGED <<srcVars, siteVars, clock, procVars, histVars, dateCall, linkCall,
                 relatedCall>>

NextTag == ParseTag \/ TagToTopic \/ GetCategories

TagSpec == InitCall /\ [][NextTag]_vars

\* ------------------------------------------------------------------ the link processor on its own
Tokens ==
  { Text,
    Wikilink(<<"A">>, NoAlias),
    Wikilink(<<"a", " ", "b">>, Alias(<<"x">>)),
    Wikilink(<<"b", " ">>, NoAlias),
    Embed(XPng),
    Embed(MissingPng) }

\* Every note body of up to MaxTokens tokens.
Contents == UNION {[1..n -> Tokens] : n \in 0..MaxTokens}

\* process_note, lines 185-186: process_wikilinks, then process_images on
\* its output.
ProcessLinks ==
  /\ pc = "idle" /\ linkCall = NoLinkCall
  /\ \E content \in Contents :
       LET w == process_wikilinks(content)
           p == process_images_content(w.content)
       IN  linkCall' = [fn |-> "links", content |-> content,
                        wikilinked |-> w.content,
                        referenced_notes |-> w.referenced_notes,
                        processed_content |-> p.content,
                        image_deps |-> p.image_deps]
  /\ UNCHANGED <<srcVars, siteVars, clock, procVars, histVars, dateCall, tagCall,
                 relatedCall>>

NextLink == ProcessLinks

LinkSpec == InitCall /\ [][NextLink]_vars

\* ------------------------------------------------------------------ the related section on its own
RelatedItems ==
  { RelatedItem(<<"A">>, NoAlias),
    RelatedItem(<<"a">>, Alias(<<"x">>)),
    RelatedItem(<<"b", " ">>, NoAlias),
    RelatedItem(<<"x">>, NoAlias) }

\* Every 'related' list of up to MaxRelated entries.
RelatedLists == UNION {[1..n -> RelatedItems] : n \in 0..MaxRelated}

\* process_note, lines 188-192: the related section is appended to the body
\* when the feature is on.
AppendRelated ==
  /\ pc = "idle" /\ relatedCall = NoRelatedCall
  /\ \E enable, listed \in BOOLEAN, related \in RelatedLists,
        note_slug \in {<<"a">>, <<"b">>, <<"o">>},
        already_linked \in SUBSET {<<"A">>, <<"b", " ">>, <<"b">>} :
       /\ listed \/ related = <<>>
       /\ LET section == generate_related_section(enable, listed, related, note_slug,
                                                  already_linked)
          IN  relatedCall' =
                [fn |-> "related", enable |-> enable, related |-> related,
                 listed |-> listed, note_slug |-> note_slug,
                 already_linked |-> already_linked, section |-> section,
                 processed_content |-> IF enable THEN <<Text>> \o section ELSE <<Text>>]
  /\ UNCHANGED <<srcVars, siteVars, clock, procVars, histVars, dateCall, tagCall,
                 linkCall>>

NextRelated == AppendRelated

RelatedSpec == InitCall /\ [][NextRelated]_vars

\* ------------------------------------------------------------------ discovery on its own
\* Two note files, each with its metadata block in any shape, over an empty
\* or a populated website.
InitDiscovery ==
  /\ srcExists = TRUE
  /\ \E ba, bb \in BlockKinds :
       \E na, nb \in {Note(TagList({ReqTag}), NoTitle, NoCreated, "absent", {}),
                      Note(TagList({ReqTag, DomTag}), StrTitle(<<"a">>), Created("str", 1),
                           "ok", {XPng})} :
         notes = [s \in Stems |->
                    IF s = <<"A">> THEN WithBlock(na, ba) ELSE WithBlock(nb, bb)]
  /\ vaultLog = "log"
  /\ required_tags = {ReqTag} /\ excluded_tags = {ExcTag}
  /\ \E site \in PriorSites :
       /\ destExists = site.dest /\ imageDestExists = site.imgdir
       /\ outDir = site.out /\ images = site.imgs /\ head = site.head
  /\ clock = 1
  /\ InitProcess

DiscoverySpec == InitDiscovery /\ [][Next]_vars

\* ------------------------------------------------------------------ properties
Range(q) == {q[i] : i \in DOMAIN q}

\* The eligible documents as the specification defines them.
Eligible ==
  {s \in Stems :
     /\ srcExists /\ notes[s].present
     /\ (extract_tags(notes[s]) \cap required_tags) # {}
     /\ (extract_tags(notes[s]) \cap excluded_tags) = {}}

\* The eligible documents whose slug(title) is the given slug.
SourcesOf(slug) == {s \in Eligible : ~SlugRaises(s) /\ SlugOf(s) = slug}

\* A normal (not dry) run has completed: publish_all returned.
NormalRunDone == pc = "done" /\ ~dryRun

\* A file without its modification time.
ContentOf(f) == [date |-> f.date, doc |-> f.doc, refs |-> f.refs, src |-> f.src]

\* C1: after a completed normal run every .md file of the output directory
\* is slug(title).md of exactly one eligible source document, also when the
\* eligible set is empty and when two eligible documents share a slug.
C1_EveryOutputFileHasOneSource ==
  NormalRunDone =>
    \A slug \in DOMAIN outDir : Cardinality(SourcesOf(slug)) = 1

\* C2: after a completed normal run every file of the image directory is
\* referenced by a document of the output directory (the .png beside a
\* referenced .webp counted as referenced), whatever its extension and
\* whatever the eligible set.
C2_EveryImageIsReferenced ==
  NormalRunDone =>
    \A i \in images :
      \E slug \in DOMAIN outDir :
        \/ i \in outDir[slug].refs
        \/ i.ext = "png" /\ Img(i.base, "webp") \in outDir[slug].refs

\* C3: a second normal run on the unchanged source set leaves the output
\* directory as the first left it, every publication date included,
\* committed in between or not, 'created' declared or not.
C3_SecondRunChangesNothing ==
  (NormalRunDone /\ prevOut.ran) =>
    /\ DOMAIN outDir = DOMAIN prevOut.out
    /\ \A slug \in DOMAIN outDir \cap DOMAIN prevOut.out :
         /\ outDir[slug].date = prevOut.out[slug].date
         /\ ContentOf(outDir[slug]) = ContentOf(prevOut.out[slug])

\* C4: once discovery has run, the publishable list holds exactly the notes
\* whose tags meet a required tag and no excluded tag; a note carrying both
\* a required and an excluded tag is in no list and is never passed to
\* process_note.
C4_FilterCorrect ==
  /\ pc \in {"loop", "sweepImages", "done"} =>
       Range(publishable) =
         {s \in Stems : /\ notes[s].present
                        /\ (extract_tags(notes[s]) \cap required_tags) # {}
                        /\ (extract_tags(notes[s]) \cap excluded_tags) = {}}
  /\ \A s \in Stems :
       (/\ (extract_tags(notes[s]) \cap required_tags) # {}
        /\ (extract_tags(notes[s]) \cap excluded_tags) # {})
         => s \notin processed /\ s \notin Range(publishable)

\* A run in which a note with a required and an excluded tag was left out
\* while the other note was published.
C4_Witness ==
  /\ NormalRunDone
  /\ (extract_tags(notes[<<"A">>]) \cap required_tags) # {}
  /\ (extract_tags(notes[<<"A">>]) \cap excluded_tags) # {}
  /\ processed = {<<"b">>} /\ <<"b">> \in DOMAIN outDir

\* C5: a document that fails does not abort the run: once the loop is over
\* every eligible document has been processed and counted once, and the run
\* is never ended by an exception after a document has failed.
C5_FailureDoesNotAbort ==
  /\ ((pc = "loop" /\ ~LoopHasNext) \/ pc = "sweepImages"
        \/ (NormalRunDone /\ publishable # <<>>)) =>
       /\ processed = Range(publishable)
       /\ published_count + failed_count = Len(publishable)
  /\ ~(pc = "raised" /\ failed_count > 0)

\* C6: in every run, nothing is deleted from the output directory or from the
\* image directory, and no sweep starts, before every eligible document has
\* been processed; and no document is processed once a sweep has started.
C6_SweepsAfterAllWrites ==
  [][ /\ ((\E slug \in DOMAIN outDir : slug \notin DOMAIN outDir')
           \/ (\E i \in images : i \notin images')
           \/ (swept' /\ ~swept))
         => (pc = "loop" \/ pc = "sweepImages") /\ processed = Range(publishable)
      /\ (processed' # processed /\ processed' # {}) => ~swept /\ ~swept'
    ]_vars

\* A sweep that deletes an orphaned document after two documents were processed.
C6_Witness ==
  /\ pc = "sweepImages" /\ Cardinality(processed) = 2
  /\ \E slug \in DOMAIN outBefore : slug \notin DOMAIN outDir

\* C7: a dry run (the constructor and publish_all(dry_run=True)) leaves the
\* output directory, the image directory and their existence as they were.
C7_DryRunChangesNothing ==
  (dryRun /\ pc = "done") =>
    /\ <<destExists, imageDestExists>> = dirsBefore
    /\ outDir = outBefore /\ images = imagesBefore

\* C8: from an output directory holding a.md and b.md, with a the only
\* eligible slug, a normal run deletes b.md and leaves a.md, written from the
\* same note before, as it was: not rewritten, its dates unchanged.
C8_OrphanRemovedOtherUntouched ==
  (/\ NormalRunDone
   /\ DOMAIN outBefore = {<<"a">>, <<"b">>}
   /\ {SlugOf(s) : s \in {e \in Eligible : ~SlugRaises(e)}} = {<<"a">>}
   /\ \E s \in Eligible : ~SlugRaises(s) /\ outBefore[<<"a">>].src = s) =>
    /\ <<"b">> \notin DOMAIN outDir
    /\ <<"a">> \in DOMAIN outDir
    /\ outDir[<<"a">>].date = outBefore[<<"a">>].date
    /\ outDir[<<"a">>].doc = outBefore[<<"a">>].doc
    /\ outDir[<<"a">>].mtime = outBefore[<<"a">>].mtime

\* C9: the publication date comes from the first available of: the date
\* recorded at HEAD when the output file exists, the source's 'created'
\* when declared, the current time.
C9_DatePriorityChain ==
  dateCall # NoCall =>
    LET h == HeadOf(head, dateCall.slug)
        created == notes[<<"A">>].created
        recorded == dateCall.slug \in DOMAIN outDir /\ h.k = "date"
    IN  /\ recorded =>
              dateCall.result[1] # "now" /\ dateCall.result[2] = h.v[2]
                /\ (h.t = "str" => dateCall.result = h.v)
        /\ (~recorded /\ created.k # "absent") =>
              dateCall.result[1] \in {"fmt", "raw"} /\ dateCall.result[2] = created.d
        /\ (~recorded /\ created.k = "absent") =>
              dateCall.result = <<"now", clock>>

\* C10: with the source directory missing, discovery raises
\* FileNotFoundError out of publish_all and the run ends with the output
\* documents and images as they were.
C10_MissingSourceAborts ==
  (~srcExists /\ runs > 0 /\ pc # "ready") =>
    /\ pc \in {"raised", "idle"}
    /\ error = "FileNotFoundError"
    /\ outDir = outBefore /\ images = imagesBefore

\* A run that raised on a missing source directory over a populated website.
C10_Witness ==
  /\ ~srcExists /\ pc = "raised" /\ error = "FileNotFoundError"
  /\ DOMAIN outDir = {<<"a">>, <<"b">>} /\ images # {}

C12_MissingImageIsWarningOnly ==
  pc = "loop" =>
    /\ published_count = Cardinality({s \in processed : ~ProcessRaises(s)})
    /\ \A s \in processed :
         (~ProcessRaises(s) /\ (notes[s].embeds \ VaultImages) # {}) =>
           /\ SlugOf(s) \in DOMAIN outDir
           /\ outDir[SlugOf(s)].mtime = clock
           /\ \A i \in notes[s].embeds \cap VaultImages : optimize_image(i) \subseteq images

\* A note embedding a missing and a present image was published into an
\* empty image directory, which now holds the present image's files.
C12_Witness ==
  /\ pc = "loop" /\ imagesBefore = {} /\ published_count = 1
  /\ \E s \in processed :
       /\ notes[s].embeds = {XPng, MissingPng}
       /\ outDir[SlugOf(s)].src = s
       /\ convert_image_link(MissingPng) \in outDir[SlugOf(s)].refs
       /\ optimize_image(XPng) \subseteq images

\* C13: for every tag of at least two segments, whatever its root, the leaf
\* of parse_hierarchical_tag is the final segment, and with more than two
\* segments full_path + '/' + leaf is the tag again.
C13_LeafAndFullPathRebuildTag ==
  (tagCall.fn = "parse" /\ Len(tagCall.tag) >= 2) =>
    /\ "leaf" \in DOMAIN tagCall.result
    /\ tagCall.result["leaf"] = tagCall.tag[Len(tagCall.tag)]
    /\ Len(tagCall.tag) > 2 =>
         /\ "full_path" \in DOMAIN tagCall.result
         /\ tagCall.result["full_path"] \o <<tagCall.result["leaf"]>> = tagCall.tag

\* C14: for a generic leaf, tag_to_topic builds the topic from the singular
\* subdomain and the leaf when there is a subdomain other than the leaf, else
\* from the singular domain and the leaf; domain/cs/algorithms/analysis is
\* Algorithm-Analysis and domain/math/analysis is Mathematical-Analysis; and
\* no other domain tag with the same generic leaf under another parent
\* segment has the same topic.
C14_GenericLeafDisambiguated ==
  (tagCall.fn = "topic" /\ tagCall.tag[1] = "domain" /\ Len(tagCall.tag) >= 2
     /\ LowerWord(tagCall.tag[Len(tagCall.tag)]) \in generic_terms) =>
    LET tag == tagCall.tag
        n == Len(tag)
    IN  /\ tag = <<"domain", "cs", "algorithms", "analysis">> =>
             tagCall.result = <<"Algorithm", "Analysis">>
        /\ tag = <<"domain", "math", "analysis">> =>
             tagCall.result = <<"Mathematical", "Analysis">>
        /\ \A other \in Tags :
             (/\ Len(other) >= 3 /\ n >= 3 /\ other[1] = "domain"
              /\ other[Len(other)] = tag[n]
              /\ other[Len(other) - 1] # tag[n - 1]) =>
               tag_to_topic(other) # tagCall.result

\* C15: get_categories_from_tag returns nothing for a tag whose root is not
\* domain; for a domain tag it returns the category (when the entry has one)
\* and then the subcategories of the longest prefix, from the whole tag down
\* to two segments, that is a key of domain_mappings; only with no such key
\* it returns the uppercased domain and then the title-cased subdomain, as
\* far as the tag has them.
C15_LongestPrefixCategories ==
  tagCall.fn = "categories" =>
    LET tag == tagCall.tag
        cfg == tagCall.cfg
        hits == {j \in 2..Len(tag) : SubSeq(tag, 1, j) \in DOMAIN cfg}
        longest == CHOOSE j \in hits : \A k \in hits : k <= j
        entry == cfg[SubSeq(tag, 1, longest)]
    IN  IF tag[1] # "domain" THEN tagCall.result = <<>>
        ELSE IF hits # {} THEN
          /\ entry.category # "" =>
               tagCall.result =
                 <<Lit(entry.category)>>
                   \o [i \in DOMAIN entry.subcategories |-> Lit(entry.subcategories[i])]
          /\ entry.category = "" =>
               tagCall.result =
                 [i \in DOMAIN entry.subcategories |-> Lit(entry.subcategories[i])]
        ELSE /\ Len(tag) = 1 => tagCall.result = <<>>
             /\ Len(tag) = 2 => tagCall.result = <<Upper(tag[2])>>
             /\ Len(tag) >= 3 => tagCall.result = <<Upper(tag[2]), Titleize(tag[3])>>

\* A call on domain/cs/algorithms/analysis with both domain/cs and
\* domain/cs/algorithms configured: the longer key's entry was returned.
C15_Witness ==
  /\ tagCall.fn = "categories"
  /\ tagCall.tag = <<"domain", "cs", "algorithms", "analysis">>
  /\ {CsKey, AlgKey} \subseteq DOMAIN tagCall.cfg
  /\ tagCall.result = <<Lit("Computer Science"), Lit("Algorithms")>>

\* C16: process_wikilinks rewrites every [[target]] and [[target|alias]] not
\* preceded by ! to a link with the alias, else the target, as its text and
\* /blog/ + slug(target) as its destination, leaves every ![[media]] as it
\* is, and returns exactly the targets of the cross-references it rewrote;
\* the name of an embedded media file is in the image dependencies of
\* process_images and never among the referenced notes.
C16_ReferencedNotesAreRewrittenTargets ==
  linkCall.fn = "links" =>
    LET content == linkCall.content
        out == linkCall.wikilinked
        rewritten == {i \in DOMAIN content : content[i].k = "wikilink"}
        embeds == {i \in DOMAIN content : content[i].k = "embed"}
    IN  /\ DOMAIN out = DOMAIN content
        /\ \A i \in rewritten :
             /\ out[i].k = "link"
             /\ out[i].text = IF content[i].alias.k = "str"
                                THEN content[i].alias.s ELSE Strip(content[i].target)
             /\ out[i].slug = Parameterize(content[i].target)
        /\ \A i \in DOMAIN content \ rewritten : out[i] = content[i]
        /\ linkCall.referenced_notes = {content[i].target : i \in rewritten}
        /\ \A i \in embeds :
             /\ NameOf(content[i].img) \in linkCall.image_deps
             /\ NameOf(content[i].img) \notin linkCall.referenced_notes

\* C17: generate_related_section emits, in the order of 'related', exactly
\* the entries whose slug is not the current slug and whose name is not
\* already linked; with the feature off, 'related' missing or empty, or no
\* entry left it returns the empty string, so the rule and the heading are
\* appended to the body only with at least one link under them.
C17_RelatedSectionFiltered ==
  relatedCall.fn = "related" =>
    LET c == relatedCall
        keep == IF c.enable /\ c.listed
                  THEN {i \in DOMAIN c.related :
                          /\ Parameterize(c.related[i].name) # c.note_slug
                          /\ c.related[i].name \notin c.already_linked}
                  ELSE {}
        at(i) == Cardinality({j \in keep : j <= i})
    IN  /\ keep = {} => c.section = <<>> /\ c.processed_content = <<Text>>
        /\ keep # {} =>
             /\ Len(c.section) = 2 + Cardinality(keep)
             /\ c.section[1] = Rule /\ c.section[2] = Heading
             /\ \A i \in keep :
                  c.section[2 + at(i)] =
                    MdLink(c.related[i].name, Parameterize(c.related[i].name))
             /\ c.processed_content = <<Text>> \o c.section
        /\ \A i \in DOMAIN c.processed_content :
             c.processed_content[i] \in {Rule, Heading} =>
               \E j \in DOMAIN c.processed_content :
                 j > i /\ c.processed_content[j].k = "link"

\* A call whose list names the note itself, a note already linked in the
\* body and a third note: only the third is listed under the heading.
C17_Witness ==
  /\ relatedCall.fn = "related" /\ relatedCall.enable
  /\ relatedCall.note_slug = <<"a">>
  /\ relatedCall.already_linked = {<<"b", " ">>}
  /\ relatedCall.related =
       <<RelatedItem(<<"A">>, NoAlias), RelatedItem(<<"b", " ">>, NoAlias),
         RelatedItem(<<"x">>, NoAlias)>>
  /\ relatedCall.section = <<Rule, Heading, MdLink(<<"x">>, <<"x">>)>>
  /\ relatedCall.processed_content = <<Text>> \o relatedCall.section

\* The notes process_note has written a file for in this run, the file
\* still being theirs.
WrittenNotes ==
  IF pc \in {"loop", "sweepImages", "done"}
    THEN {s \in processed :
            ~ProcessRaises(s) /\ SlugOf(s) \in DOMAIN outDir /\ outDir[SlugOf(s)].src = s}
    ELSE {}

C19_SweepSparesEligibleSlugs ==
  [][ \A slug \in DOMAIN outDir :
        slug \notin DOMAIN outDir' =>
          slug \notin {SlugOf(s) : s \in {e \in Eligible : ~SlugRaises(e)}}
    ]_vars

\* The sweep has run after an eligible document failed: the file an earlier
\* run left at its slug is still there, untouched, while an orphan is gone.
C19_Witness ==
  /\ pc = "sweepImages" /\ failed_count = 1
  /\ \E s \in Eligible :
       /\ s \in processed /\ ProcessRaises(s) /\ ~SlugRaises(s)
       /\ SlugOf(s) \in DOMAIN outBefore /\ SlugOf(s) \in DOMAIN outDir
       /\ outDir[SlugOf(s)] = outBefore[SlugOf(s)]
  /\ \E slug \in DOMAIN outBefore : slug \notin DOMAIN outDir

\* Image i is linked from a document of the output directory, or is the
\* .png beside a linked .webp.
LinkedFromOutput(i) ==
  \E slug \in DOMAIN outDir :
    \/ i \in outDir[slug].refs
    \/ i.ext = "png" /\ Img(i.base, "webp") \in outDir[slug].refs

\* C20: in a normal run with a non-empty eligible list the document sweep is
\* over when the media sweep reads the output directory: no orphaned document
\* is left then; so when the run is done no media file with a swept
\* extension is left that only orphaned documents linked, while every media
\* file a surviving document links (and the .png beside a linked .webp) is
\* still there.
C20_MediaSweepSeesSweptDocuments ==
  (~dryRun /\ publishable # <<>>) =>
    /\ pc = "sweepImages" =>
         /\ swept
         /\ \A slug \in DOMAIN outDir : \E s \in Range(publishable) : SlugOf(s) = slug
    /\ pc = "done" =>
         /\ \A i \in images : i.ext \in SweptExtensions => LinkedFromOutput(i)
         /\ \A i \in imagesBefore : LinkedFromOutput(i) => i \in images

\* A completed run that removed an orphaned document and, in the same run,
\* the .webp only that document linked, and kept the .webp and .png of an
\* image a surviving document links.
C20_Witness ==
  /\ NormalRunDone /\ publishable # <<>>
  /\ \E slug \in DOMAIN outBefore :
       slug \notin DOMAIN outDir /\ OldWebp \in outBefore[slug].refs
  /\ OldWebp \in imagesBefore /\ OldWebp \notin images
  /\ {XWebp, XPng} \subseteq imagesBefore /\ {XWebp, XPng} \subseteq images

====
